---------------------------- MODULE Spec2Model ----------------------------
(***************************************************************************)
(* Model of the extend_metrics Caddy handler (package extend_metrics).     *)
(*                                                                         *)
(* CaddyMetrics.ServeHTTP wraps the next handler of the chain and feeds    *)
(* seven Prometheus instruments (metrics.go).  A request is a process that *)
(* walks through ServeHTTP; the next handler is the environment: while the *)
(* request is inside next.ServeHTTP it may write a response head through   *)
(* the response recorder (which calls the ShouldBufferFunc hook), write    *)
(* body bytes, return nil, return an error, or panic.                      *)
(***************************************************************************)
EXTENDS Integers, Sequences, FiniteSets, Bags, TLC

(***************************************************************************)
(* Bounds of the model.                                                    *)
(***************************************************************************)
NumReqs == 1        \* ServeHTTP invocations of one run
MaxTime == 2        \* clock ticks the run may see
MaxBody == 1        \* body bytes one handler may write
MaxTokens == 4      \* tokens of a directive's segment
MaxLine == 3        \* lines of a directive's segment

Reqs == 1..NumReqs

\* the goroutines that may run ServeHTTP; those of Reqs run it in turn
Goroutines == 1..(NumReqs + 1)

(***************************************************************************)
(* Values.                                                                 *)
(***************************************************************************)
NoURL == [nil |-> TRUE]

URLs == {NoURL,
         [Path |-> "/x", RawQuery |-> ""],
         [Path |-> "/", RawQuery |-> "a=1"]}

RawMethods == {"GET", "post", "PURGE"}

Protos == {"HTTP/1.1", "HTTP/2.0"}

\* http.Header values: a map from field names to lists of values
NoHeader == [n \in {} |-> << >>]

Headers == {NoHeader,
            [n \in {"Accept"} |-> <<"*/*">>],
            [n \in {"Accept", "X-A"} |->
                 IF n = "Accept" THEN <<"a", "bc">> ELSE << >>]}

HostNames == {"h", "example.org", ""}

\* r.ContentLength is an int64: -1 is "unknown"
ContentLengths == {-100, -2, -1, 0, 7}

Requests == [URL : URLs, Method : RawMethods, Proto : Protos,
             Header : Headers, Host : HostNames,
             ContentLength : ContentLengths]

\* the requests that the handler serves in the runs of Spec
ServedRequests ==
    {[URL |-> [Path |-> "/x", RawQuery |-> ""], Method |-> "GET",
      Proto |-> "HTTP/1.1", Header |-> NoHeader, Host |-> "h",
      ContentLength |-> -1],
     [URL |-> [Path |-> "/", RawQuery |-> "a=1"], Method |-> "post",
      Proto |-> "HTTP/2.0", Header |-> [n \in {"Accept"} |-> <<"*/*">>],
      Host |-> "example.org", ContentLength |-> 7]}

NoRequest == [none |-> TRUE]

\* statuses a handler passes to WriteHeader, and statuses a HandlerError carries
HeadStatuses == {204, 404}
ErrStatuses == {500}

\* error values: nil, a caddyhttp.HandlerError, an error wrapping one, any other
Nil == [kind |-> "nil"]
HandlerError(s) == [kind |-> "HandlerError", StatusCode |-> s]
Wrapped(e) == [kind |-> "wrapped", inner |-> e]
PlainError == [kind |-> "plain"]

HandlerErrors ==
    {HandlerError(s) : s \in ErrStatuses}
        \cup {Wrapped(HandlerError(s)) : s \in ErrStatuses}
        \cup {PlainError}

NoReturn == [kind |-> "none"]

VARIABLES
    now,              \* the monotonic clock read by time.Now / time.Since
    pc,               \* where each invocation of ServeHTTP stands
    req,              \* r *http.Request
    labels,           \* labels
    statusLabels,     \* statusLabels
    start,            \* start
    dur,              \* dur
    ttfb,             \* ttfb, the last value the hook computed
    wrec,             \* the caddyhttp response recorder
    err,              \* err, the result of next.ServeHTTP
    panicking,        \* the goroutine is unwinding a panic of the next handler
    ret,              \* the value ServeHTTP returned
    requestInFlight,  \* httpMetrics.requestInFlight
    requestCount,     \* httpMetrics.requestCount
    requestErrors,    \* httpMetrics.requestErrors
    requestDuration,  \* httpMetrics.requestDuration
    requestSize,      \* httpMetrics.requestSize
    responseSize,     \* httpMetrics.responseSize
    responseDuration, \* httpMetrics.responseDuration
    inFlightBefore,   \* history: the gauge of the host when ServeHTTP began
    sizeArg,          \* argument of a call of computeApproximateRequestSize
    sizeRet,          \* its result
    tokens,           \* the tokens of the caddyfile.Dispenser
    cursor,           \* the cursor of the caddyfile.Dispenser
    parseRet,         \* what parseCaddyfile returned
    registry          \* the instruments registered with Prometheus

reqVars == <<pc, req, labels, statusLabels, start, dur, ttfb, wrec, err,
             panicking, ret, inFlightBefore>>
metricVars == <<requestInFlight, requestCount, requestErrors,
                requestDuration, requestSize, responseSize,
                responseDuration>>
sizeVars == <<sizeArg, sizeRet>>
parseVars == <<tokens, cursor, parseRet>>
otherVars == <<sizeVars, parseVars, registry>>
vars == <<now, reqVars, metricVars, otherVars>>

(***************************************************************************)
(* Strings.                                                                *)
(***************************************************************************)
Digit(d) ==
    CASE d = 0 -> "0" [] d = 1 -> "1" [] d = 2 -> "2" [] d = 3 -> "3"
      [] d = 4 -> "4" [] d = 5 -> "5" [] d = 6 -> "6" [] d = 7 -> "7"
      [] d = 8 -> "8" [] d = 9 -> "9"

RECURSIVE Itoa(_)
Itoa(n) == IF n < 10 THEN Digit(n) ELSE Itoa(n \div 10) \o Digit(n % 10)

\* status code -> value of the "code" label
SanitizeCode(s) == IF s = 0 \/ s = 200 THEN "200" ELSE Itoa(s)

\* method -> value of the "method" label
SanitizeMethod(m) ==
    CASE m \in {"GET", "get"} -> "GET"
      [] m \in {"POST", "post"} -> "POST"
      [] OTHER -> "OTHER"

\* (*url.URL).String of a URL made of a path and a query
URLString(u) ==
    IF u.RawQuery = "" THEN u.Path ELSE u.Path \o "?" \o u.RawQuery

(***************************************************************************)
(* computeApproximateRequestSize                                           *)
(***************************************************************************)
RECURSIVE SumLen(_, _)
SumLen(values, i) ==
    IF i > Len(values) THEN 0 ELSE Len(values[i]) + SumLen(values, i + 1)

RECURSIVE HeaderLen(_, _)
HeaderLen(header, names) ==
    IF names = {} THEN 0
    ELSE LET name == CHOOSE n \in names : TRUE
         IN  Len(name) + SumLen(header[name], 1)
                 + HeaderLen(header, names \ {name})

computeApproximateRequestSize(r) ==
    LET s0 == 0
        s1 == IF r.URL # NoURL THEN s0 + Len(URLString(r.URL)) ELSE s0
        s2 == s1 + Len(r.Method)
        s3 == s2 + Len(r.Proto)
        s4 == s3 + HeaderLen(r.Header, DOMAIN r.Header)
        s5 == s4 + Len(r.Host)
        s6 == IF r.ContentLength # -1 THEN s5 + r.ContentLength ELSE s5
    IN  s6

(***************************************************************************)
(* The instruments.  A vector of gauges or counters maps the value of the  *)
(* host label to a number; a vector of histograms is the bag of its        *)
(* observations, each with the label set it was made under.                *)
(***************************************************************************)
ServedHosts == {q.Host : q \in ServedRequests}

Inc(vec, lbls) == [vec EXCEPT ![lbls.host] = @ + 1]
Dec_Reset(vec, lbls) == [vec EXCEPT ![lbls.host] = 0]
Dec(vec, lbls) == [vec EXCEPT ![lbls.host] = @ - 1]
Observe(vec, lbls, v) == vec (+) SetToBag({[labels |-> lbls, value |-> v]})

Since(t) == now - t


(***************************************************************************)
(* metrics.go: the instruments that init registers.  Each field of         *)
(* httpMetrics gets its fully qualified name, its kind, its label names    *)
(* and, for a histogram, its buckets.                                      *)
(***************************************************************************)
RECURSIVE ExponentialBuckets(_, _, _)
ExponentialBuckets(first, factor, count) ==
    IF count = 0 THEN << >>
    ELSE <<first>> \o ExponentialBuckets(first * factor, factor, count - 1)

\* prometheus.BuildFQName
BuildFQName(ns, sub, name) == ns \o "_" \o sub \o "_" \o name

NoBuckets == << >>

NewVec(kind, ns, sub, name, labelNames, buckets) ==
    [name |-> BuildFQName(ns, sub, name), kind |-> kind,
     labels |-> labelNames, buckets |-> buckets]

init_TtfbBasicLabels ==
    LET ns == "caddy"
        sub == "http_extend"
        basicLabels == <<"host">>
        durationBuckets == "prometheus.DefBuckets"
        sizeBuckets == ExponentialBuckets(256, 4, 8)
        httpLabels == <<"host", "code", "method">>
    IN  [requestInFlight |->
             NewVec("gauge", ns, sub, "requests_in_flight", basicLabels,
                    NoBuckets),
         requestErrors |->
             NewVec("counter", ns, sub, "request_errors_total", basicLabels,
                    NoBuckets),
         requestCount |->
             NewVec("counter", ns, sub, "requests_total", basicLabels,
                    NoBuckets),
         requestDuration |->
             NewVec("histogram", ns, sub, "request_duration_seconds",
                    httpLabels, durationBuckets),
         requestSize |->
             NewVec("histogram", ns, sub, "request_size_bytes", httpLabels,
                    sizeBuckets),
         responseSize |->
             NewVec("histogram", ns, sub, "response_size_bytes", httpLabels,
                    sizeBuckets),
         responseDuration |->
             NewVec("histogram", ns, sub, "response_duration_seconds",
                    basicLabels, durationBuckets)]

init ==
    LET ns == "caddy"
        sub == "http_extend"
        basicLabels == <<"host">>
        durationBuckets == "prometheus.DefBuckets"
        sizeBuckets == ExponentialBuckets(256, 4, 8)
        httpLabels == <<"host", "code", "method">>
    IN  [requestInFlight |->
             NewVec("gauge", ns, sub, "requests_in_flight", basicLabels,
                    NoBuckets),
         requestErrors |->
             NewVec("counter", ns, sub, "request_errors_total", basicLabels,
                    NoBuckets),
         requestCount |->
             NewVec("counter", ns, sub, "requests_total", basicLabels,
                    NoBuckets),
         requestDuration |->
             NewVec("histogram", ns, sub, "request_duration_seconds",
                    httpLabels, durationBuckets),
         requestSize |->
             NewVec("histogram", ns, sub, "request_size_bytes", httpLabels,
                    sizeBuckets),
         responseSize |->
             NewVec("histogram", ns, sub, "response_size_bytes", httpLabels,
                    sizeBuckets),
         responseDuration |->
             NewVec("histogram", ns, sub, "response_duration_seconds",
                    httpLabels, durationBuckets)]

(***************************************************************************)
(* The caddyfile.Dispenser that parseCaddyfile is given: the tokens of the *)
(* directive's segment, each with its line, and a cursor that starts       *)
(* before the first token (the directive's name).                          *)
(***************************************************************************)
Token(text, line) == [Text |-> text, Line |-> line]

Directive == Token("extend_metrics", 1)

ArgTokens == {Token(x, l) : x \in {"a", "{"}, l \in 1..MaxLine}

Segments ==
    {s \in UNION {[1..n -> {Directive} \cup ArgTokens] : n \in 1..MaxTokens} :
        /\ s[1] = Directive
        /\ \A i \in 2..Len(s) : s[i] \in ArgTokens /\ s[i-1].Line <= s[i].Line}

NoParse == [none |-> TRUE]
NewCursor == 0 - 1

InitDispenser ==
    /\ tokens = <<Directive>>
    /\ cursor = NewCursor
    /\ parseRet = NoParse

(***************************************************************************)
(* Initial state: the instruments are registered and empty, no request has *)
(* arrived.                                                                *)
(***************************************************************************)
NoLabels == [none |-> TRUE]
NewRecorder == [statusCode |-> 0, size |-> 0, wroteHeader |-> FALSE,
                stream |-> FALSE]
NoResult == << >>

InitRequests ==
    /\ now = 0
    /\ pc = [r \in Goroutines |-> "idle"]
    /\ req = [r \in Goroutines |-> NoRequest]
    /\ labels = [r \in Goroutines |-> NoLabels]
    /\ statusLabels = [r \in Goroutines |-> NoLabels]
    /\ start = [r \in Goroutines |-> 0]
    /\ dur = [r \in Goroutines |-> 0]
    /\ ttfb = [r \in Goroutines |-> 0]
    /\ wrec = [r \in Goroutines |-> NewRecorder]
    /\ err = [r \in Goroutines |-> Nil]
    /\ panicking = [r \in Goroutines |-> FALSE]
    /\ ret = [r \in Goroutines |-> NoReturn]
    /\ inFlightBefore = [r \in Goroutines |-> 0]

InitMetrics ==
    /\ registry = init
    /\ requestInFlight = [h \in ServedHosts |-> 0]
    /\ requestCount = [h \in ServedHosts |-> 0]
    /\ requestErrors = [h \in ServedHosts |-> 0]
    /\ requestDuration = EmptyBag
    /\ requestSize = EmptyBag
    /\ responseSize = EmptyBag
    /\ responseDuration = EmptyBag

Init ==
    /\ InitRequests
    /\ InitMetrics
    /\ sizeArg = NoRequest
    /\ sizeRet = NoResult
    /\ InitDispenser

(***************************************************************************)
(* ServeHTTP, up to the call of the next handler.                          *)
(***************************************************************************)
Start_NoInc(r, q) ==
    /\ pc[r] = "idle"
    /\ req' = [req EXCEPT ![r] = q]
    /\ labels' = [labels EXCEPT ![r] = [host |-> q.Host]]
    /\ statusLabels' = [statusLabels EXCEPT ![r] =
            [host |-> q.Host, method |-> SanitizeMethod(q.Method),
             code |-> "0"]]
    /\ inFlightBefore' = [inFlightBefore EXCEPT ![r] = requestInFlight[q.Host]]
    /\ requestInFlight' = requestInFlight
    /\ start' = [start EXCEPT ![r] = now]
    /\ wrec' = [wrec EXCEPT ![r] = NewRecorder]
    /\ pc' = [pc EXCEPT ![r] = "next"]
    /\ UNCHANGED <<now, dur, ttfb, err, panicking, ret, requestCount,
                   requestErrors, requestDuration, requestSize,
                   responseSize, responseDuration, otherVars>>

Start_NoCode(r, q) ==
    /\ pc[r] = "idle"
    /\ req' = [req EXCEPT ![r] = q]
    /\ labels' = [labels EXCEPT ![r] = [host |-> q.Host]]
    /\ statusLabels' = [statusLabels EXCEPT ![r] =
            [host |-> q.Host, method |-> SanitizeMethod(q.Method)]]
    /\ inFlightBefore' = [inFlightBefore EXCEPT ![r] = requestInFlight[q.Host]]
    /\ requestInFlight' = Inc(requestInFlight, [host |-> q.Host])
    /\ start' = [start EXCEPT ![r] = now]
    /\ wrec' = [wrec EXCEPT ![r] = NewRecorder]
    /\ pc' = [pc EXCEPT ![r] = "next"]
    /\ UNCHANGED <<now, dur, ttfb, err, panicking, ret, requestCount,
                   requestErrors, requestDuration, requestSize,
                   responseSize, responseDuration, otherVars>>

Start(r, q) ==
    /\ pc[r] = "idle"
    /\ req' = [req EXCEPT ![r] = q]
    /\ labels' = [labels EXCEPT ![r] = [host |-> q.Host]]
    /\ statusLabels' = [statusLabels EXCEPT ![r] =
            [host |-> q.Host, method |-> SanitizeMethod(q.Method),
             code |-> "0"]]
    /\ inFlightBefore' = [inFlightBefore EXCEPT ![r] = requestInFlight[q.Host]]
    /\ requestInFlight' = Inc(requestInFlight, [host |-> q.Host])
    /\ start' = [start EXCEPT ![r] = now]
    /\ wrec' = [wrec EXCEPT ![r] = NewRecorder]
    /\ pc' = [pc EXCEPT ![r] = "next"]
    /\ UNCHANGED <<now, dur, ttfb, err, panicking, ret, requestCount,
                   requestErrors, requestDuration, requestSize,
                   responseSize, responseDuration, otherVars>>

(***************************************************************************)
(* The ShouldBufferFunc that ServeHTTP hands to the response recorder:     *)
(* its effect on statusLabels and on the time-to-first-byte histogram, and *)
(* the value it returns.                                                   *)
(***************************************************************************)
writeHeaderRecorder_SharedLabels(r, status) ==
    LET first == CHOOSE o \in Goroutines :
                     /\ pc[o] # "idle"
                     /\ \A p \in Goroutines : pc[p] # "idle" => o <= p
        sl == [statusLabels[first] EXCEPT !.code = SanitizeCode(status)]
        t == Since(start[r])
    IN  [statusLabels |-> sl,
         ttfb |-> t,
         responseDuration |-> Observe(responseDuration, sl, t),
         result |-> FALSE]

writeHeaderRecorder_ObserveFirst(r, status) ==
    LET sl == [statusLabels[r] EXCEPT !.code = SanitizeCode(status)]
        t == Since(start[r])
    IN  [statusLabels |-> sl,
         ttfb |-> t,
         responseDuration |-> Observe(responseDuration, statusLabels[r], t),
         result |-> FALSE]

writeHeaderRecorder(r, status) ==
    LET sl == [statusLabels[r] EXCEPT !.code = SanitizeCode(status)]
        t == Since(start[r])
    IN  [statusLabels |-> sl,
         ttfb |-> t,
         responseDuration |-> Observe(responseDuration, sl, t),
         result |-> FALSE]

(***************************************************************************)
(* The next handler, seen through the response recorder: WriteHeader calls *)
(* the hook the first time only, Write sends the head with status 200 if   *)
(* none was sent and counts the bytes.                                     *)
(***************************************************************************)
RecorderWriteHeader(r, status, n) ==
    IF wrec[r].wroteHeader
    THEN /\ wrec' = [wrec EXCEPT ![r].size = @ + n]
         /\ UNCHANGED <<statusLabels, ttfb, responseDuration>>
    ELSE LET hook == writeHeaderRecorder(r, status)
         IN  /\ wrec' = [wrec EXCEPT ![r] =
                     [statusCode |-> status, size |-> @.size + n,
                      wroteHeader |-> TRUE, stream |-> ~hook.result]]
             /\ statusLabels' = [statusLabels EXCEPT ![r] = hook.statusLabels]
             /\ ttfb' = [ttfb EXCEPT ![r] = hook.ttfb]
             /\ responseDuration' = hook.responseDuration

HandlerWriteHeader(r, status) ==
    /\ pc[r] = "next"
    /\ RecorderWriteHeader(r, status, 0)
    /\ UNCHANGED <<now, pc, req, labels, start, dur, err, panicking, ret,
                   inFlightBefore, requestInFlight, requestCount,
                   requestErrors, requestDuration, requestSize,
                   responseSize, otherVars>>

HandlerWrite(r, n) ==
    /\ pc[r] = "next"
    /\ wrec[r].size + n <= MaxBody
    /\ RecorderWriteHeader(r, 200, n)
    /\ UNCHANGED <<now, pc, req, labels, start, dur, err, panicking, ret,
                   inFlightBefore, requestInFlight, requestCount,
                   requestErrors, requestDuration, requestSize,
                   responseSize, otherVars>>

HandlerReturn(r, e) ==
    /\ pc[r] = "next"
    /\ err' = [err EXCEPT ![r] = e]
    /\ pc' = [pc EXCEPT ![r] = "count"]
    /\ UNCHANGED <<now, req, labels, statusLabels, start, dur, ttfb, wrec,
                   panicking, ret, inFlightBefore, metricVars, otherVars>>

HandlerPanic_Counted(r) ==
    /\ pc[r] = "next"
    /\ panicking' = [panicking EXCEPT ![r] = TRUE]
    /\ pc' = [pc EXCEPT ![r] = "defer"]
    /\ requestCount' = Inc(requestCount, labels[r])
    /\ UNCHANGED <<now, req, labels, statusLabels, start, dur, ttfb, wrec,
                   err, ret, inFlightBefore, requestInFlight, requestErrors,
                   requestDuration, requestSize, responseSize,
                   responseDuration, otherVars>>

HandlerPanic(r) ==
    /\ pc[r] = "next"
    /\ panicking' = [panicking EXCEPT ![r] = TRUE]
    /\ pc' = [pc EXCEPT ![r] = "defer"]
    /\ UNCHANGED <<now, req, labels, statusLabels, start, dur, ttfb, wrec,
                   err, ret, inFlightBefore, metricVars, otherVars>>

(***************************************************************************)
(* ServeHTTP after the next handler returned.                              *)
(***************************************************************************)
CountRequest_DurBeforeNext(r) ==
    /\ pc[r] = "count"
    /\ dur' = [dur EXCEPT ![r] = start[r] - start[r]]
    /\ requestCount' = Inc(requestCount, labels[r])
    /\ pc' = [pc EXCEPT ![r] = "finalize"]
    /\ UNCHANGED <<now, req, labels, statusLabels, start, ttfb, wrec, err,
                   panicking, ret, inFlightBefore, requestInFlight,
                   requestErrors, requestDuration, requestSize,
                   responseSize, responseDuration, otherVars>>

CountRequest_OnlyOnSuccess(r) ==
    /\ pc[r] = "count"
    /\ dur' = [dur EXCEPT ![r] = Since(start[r])]
    /\ requestCount' =
           IF err[r] = Nil THEN Inc(requestCount, labels[r]) ELSE requestCount
    /\ pc' = [pc EXCEPT ![r] = "finalize"]
    /\ UNCHANGED <<now, req, labels, statusLabels, start, ttfb, wrec, err,
                   panicking, ret, inFlightBefore, requestInFlight,
                   requestErrors, requestDuration, requestSize,
                   responseSize, responseDuration, otherVars>>

CountRequest(r) ==
    /\ pc[r] = "count"
    /\ dur' = [dur EXCEPT ![r] = Since(start[r])]
    /\ requestCount' = Inc(requestCount, labels[r])
    /\ pc' = [pc EXCEPT ![r] = "finalize"]
    /\ UNCHANGED <<now, req, labels, statusLabels, start, ttfb, wrec, err,
                   panicking, ret, inFlightBefore, requestInFlight,
                   requestErrors, requestDuration, requestSize,
                   responseSize, responseDuration, otherVars>>

\* errors.As(err, &handlerErr): the first HandlerError of the chain, if any
ErrorsAs_AnyError(e) ==
    CASE e.kind = "HandlerError" -> [ok |-> TRUE, handlerErr |-> e]
      [] e.kind = "wrapped" /\ e.inner.kind = "HandlerError" ->
             [ok |-> TRUE, handlerErr |-> e.inner]
      [] OTHER -> [ok |-> TRUE, handlerErr |-> HandlerError(0)]

ErrorsAs(e) ==
    CASE e.kind = "HandlerError" -> [ok |-> TRUE, handlerErr |-> e]
      [] e.kind = "wrapped" /\ e.inner.kind = "HandlerError" ->
             [ok |-> TRUE, handlerErr |-> e.inner]
      [] OTHER -> [ok |-> FALSE]

\* the closure observeRequest: the value of "code" it observes under
observeCode_Always(r, status) == SanitizeCode(status)

observeCode(r, status) ==
    IF statusLabels[r].code = "" THEN SanitizeCode(status)
    ELSE statusLabels[r].code

observeRequest_NoResponseSize(r, status) ==
    LET sl == [statusLabels[r] EXCEPT !.code = observeCode(r, status)]
    IN  /\ statusLabels' = [statusLabels EXCEPT ![r] = sl]
        /\ requestDuration' = Observe(requestDuration, sl, dur[r])
        /\ requestSize' =
               Observe(requestSize, sl, computeApproximateRequestSize(req[r]))
        /\ responseSize' = responseSize

observeRequest(r, status) ==
    LET sl == [statusLabels[r] EXCEPT !.code = observeCode(r, status)]
    IN  /\ statusLabels' = [statusLabels EXCEPT ![r] = sl]
        /\ requestDuration' = Observe(requestDuration, sl, dur[r])
        /\ requestSize' =
               Observe(requestSize, sl, computeApproximateRequestSize(req[r]))
        /\ responseSize' = Observe(responseSize, sl, wrec[r].size)

\* the value ServeHTTP returns
Returned_HandlerErr(r) ==
    IF err[r] # Nil /\ ErrorsAs(err[r]).ok
    THEN ErrorsAs(err[r]).handlerErr
    ELSE err[r]

Returned(r) == err[r]

\* httpMetrics.requestErrors after the error branch of ServeHTTP
countError_OnlyWithoutStatus(r) ==
    IF ErrorsAs(err[r]).ok THEN requestErrors
    ELSE Inc(requestErrors, labels[r])

countError(r) == Inc(requestErrors, labels[r])

Finalize(r) ==
    /\ pc[r] = "finalize"
    /\ IF err[r] # Nil
       THEN /\ IF ErrorsAs(err[r]).ok
               THEN observeRequest(r, ErrorsAs(err[r]).handlerErr.StatusCode)
               ELSE UNCHANGED <<statusLabels, requestDuration, requestSize,
                                responseSize>>
            /\ requestErrors' = countError(r)
       ELSE /\ observeRequest(r, wrec[r].statusCode)
            /\ UNCHANGED requestErrors
    /\ ret' = [ret EXCEPT ![r] = Returned(r)]
    /\ pc' = [pc EXCEPT ![r] = "defer"]
    /\ UNCHANGED <<now, req, labels, start, dur, ttfb, wrec, err, panicking,
                   inFlightBefore, requestInFlight, requestCount,
                   responseDuration, otherVars>>

\* defer inFlight.Dec(): runs when ServeHTTP returns and when it unwinds
DeferredDec_NotDeferred(r) ==
    /\ pc[r] = "defer"
    /\ requestInFlight' =
           IF panicking[r] THEN requestInFlight
           ELSE Dec(requestInFlight, labels[r])
    /\ pc' = [pc EXCEPT ![r] = "done"]
    /\ UNCHANGED <<now, req, labels, statusLabels, start, dur, ttfb, wrec,
                   err, panicking, ret, inFlightBefore, requestCount,
                   requestErrors, requestDuration, requestSize,
                   responseSize, responseDuration, otherVars>>

DeferredDec(r) ==
    /\ pc[r] = "defer"
    /\ requestInFlight' = Dec(requestInFlight, labels[r])
    /\ pc' = [pc EXCEPT ![r] = "done"]
    /\ UNCHANGED <<now, req, labels, statusLabels, start, dur, ttfb, wrec,
                   err, panicking, ret, inFlightBefore, requestCount,
                   requestErrors, requestDuration, requestSize,
                   responseSize, responseDuration, otherVars>>

\* a request is inside ServeHTTP
Active(r) == pc[r] \notin {"idle", "done"}

\* time passes; the clock is read by the hook, while the next handler runs,
\* and by line 81 right after it returned, so only ticks before these count
Tick ==
    /\ now < MaxTime
    /\ \E r \in Reqs : pc[r] \in {"next", "count"}
    /\ now' = now + 1
    /\ UNCHANGED <<reqVars, metricVars, otherVars>>

\* the server hands ServeHTTP one request after the other
NoneActive == \A o \in Reqs : ~Active(o)

Next ==
    \/ \E r \in Reqs, q \in ServedRequests : NoneActive /\ Start(r, q)
    \/ \E r \in Reqs, s \in HeadStatuses : HandlerWriteHeader(r, s)
    \/ \E r \in Reqs, n \in 1..MaxBody : HandlerWrite(r, n)
    \/ \E r \in Reqs, e \in {Nil} \cup HandlerErrors : HandlerReturn(r, e)
    \/ \E r \in Reqs : HandlerPanic(r)
    \/ \E r \in Reqs : CountRequest(r)
    \/ \E r \in Reqs : Finalize(r)
    \/ \E r \in Reqs : DeferredDec(r)
    \/ Tick

Spec == Init /\ [][Next]_vars

(***************************************************************************)
(* The server runs ServeHTTP on every goroutine at once: the steps of the  *)
(* requests interleave in every order.  The clock stands still, a handler  *)
(* writes its whole body with one Write (which sends the head) and fails   *)
(* with or without a status.                                               *)
(***************************************************************************)
ConcurrentErrors == {HandlerError(s) : s \in ErrStatuses} \cup {PlainError}

NextConcurrent ==
    \/ \E r \in Goroutines, q \in ServedRequests : Start(r, q)
    \/ \E r \in Goroutines : HandlerWrite(r, MaxBody)
    \/ \E r \in Goroutines, e \in {Nil} \cup ConcurrentErrors :
           HandlerReturn(r, e)
    \/ \E r \in Goroutines : HandlerPanic(r)
    \/ \E r \in Goroutines : CountRequest(r)
    \/ \E r \in Goroutines : Finalize(r)
    \/ \E r \in Goroutines : DeferredDec(r)

ConcurrentSpec == Init /\ [][NextConcurrent]_vars

(***************************************************************************)
(* Calls of computeApproximateRequestSize on every request of Requests.    *)
(***************************************************************************)
InitSize ==
    /\ InitRequests
    /\ InitMetrics
    /\ sizeArg \in Requests
    /\ sizeRet = NoResult
    /\ InitDispenser

ComputeSize ==
    /\ sizeRet = NoResult
    /\ sizeRet' = <<computeApproximateRequestSize(sizeArg)>>
    /\ UNCHANGED <<now, reqVars, metricVars, sizeArg, parseVars, registry>>

NextSize == ComputeSize

SizeSpec == InitSize /\ [][NextSize]_vars

(***************************************************************************)
(* parseCaddyfile and UnmarshalCaddyfile, on every segment of Segments.    *)
(***************************************************************************)
\* the dispenser: two tokens are on one line
isNextOnNewLine(t1, t2) == t1.Line < t2.Line

\* (*Dispenser).NextArg: move to the next token if it is on the same line
NextArg(toks, cur) ==
    IF cur < 0 THEN [ok |-> TRUE, cursor |-> cur + 1]
    ELSE IF cur >= Len(toks) - 1 THEN [ok |-> FALSE, cursor |-> cur]
    ELSE IF ~isNextOnNewLine(toks[cur + 1], toks[cur + 2])
         THEN [ok |-> TRUE, cursor |-> cur + 1]
         ELSE [ok |-> FALSE, cursor |-> cur]

UnmarshalCaddyfile_OneNextArg(toks, cur) ==
    LET first == NextArg(toks, cur)
    IN  [cursor |-> first.cursor,
         err |-> IF first.ok THEN "ArgErr" ELSE "nil"]

UnmarshalCaddyfile(toks, cur) ==
    LET first == NextArg(toks, cur)
        second == NextArg(toks, first.cursor)
    IN  [cursor |-> second.cursor,
         err |-> IF second.ok THEN "ArgErr" ELSE "nil"]

parseCaddyfile ==
    /\ parseRet = NoParse
    /\ LET u == UnmarshalCaddyfile(tokens, cursor)
       IN  /\ cursor' = u.cursor
           /\ parseRet' = [metrics |-> "CaddyMetrics", err |-> u.err]
    /\ UNCHANGED <<now, reqVars, metricVars, sizeVars, tokens, registry>>

InitParse ==
    /\ InitRequests
    /\ InitMetrics
    /\ sizeArg = NoRequest
    /\ sizeRet = NoResult
    /\ tokens \in Segments
    /\ cursor = NewCursor
    /\ parseRet = NoParse

NextParse == parseCaddyfile

ParseSpec == InitParse /\ [][NextParse]_vars

(***************************************************************************)
(* Properties.                                                             *)
(***************************************************************************)
\* the next handler returned to ServeHTTP and line 82 has run
PastCount(r) == pc[r] \in {"finalize", "defer", "done"} /\ ~panicking[r]

\* ServeHTTP has reached one of its return statements
PastFinalize(r) == pc[r] \in {"defer", "done"} /\ ~panicking[r]

\* the error is a HandlerError or wraps one
CarriesStatus(e) ==
    \/ e.kind = "HandlerError"
    \/ e.kind = "wrapped" /\ e.inner.kind = "HandlerError"

\* the status code such an error carries
StatusOf(e) == IF e.kind = "wrapped" THEN e.inner.StatusCode ELSE e.StatusCode

\* the next handler returned an error that carries a status code
HasStatus(e) == e # Nil /\ CarriesStatus(e)

\* the next handler returned an error that carries none
NoStatus(e) == e # Nil /\ ~CarriesStatus(e)

\* the step adds exactly one observation to a histogram, under lbls
AddsOne(h, hp, lbls) ==
    /\ h \sqsubseteq hp
    /\ BagCardinality(hp (-) h) = 1
    /\ \A o \in BagToSet(hp (-) h) : o.labels = lbls

\* the label set of request r is the one of its host, method and some class
OwnLabels(r, lbls) ==
    /\ DOMAIN lbls = {"host", "method", "code"}
    /\ lbls.host = req[r].Host
    /\ lbls.method = SanitizeMethod(req[r].Method)

\* C1: on every way out of ServeHTTP (nil, error with or without a status
\* code, panic of the next handler) the in-flight gauge of the request's host
\* is decremented exactly once: the step that leaves ServeHTTP takes one off
\* the gauge and brings it back to the value it had before the request, and
\* no step between the increment and the exit changes the gauge.
C1_InFlightRestored ==
    [][\A r \in Reqs :
           Active(r) =>
               IF pc'[r] = "done"
               THEN /\ requestInFlight' =
                           [requestInFlight EXCEPT ![req[r].Host] = @ - 1]
                    /\ requestInFlight'[req[r].Host] = inFlightBefore[r]
               ELSE requestInFlight' = requestInFlight]_vars

C1_Witness ==
    \E r \in Reqs :
        /\ pc[r] = "done"
        /\ panicking[r]
        /\ requestInFlight[req[r].Host] = inFlightBefore[r]

C3_ErrorForwarded ==
    \A r \in Reqs :
        IF PastFinalize(r) THEN ret[r] = err[r] ELSE ret[r] = NoReturn

C3_Witness ==
    \E r \in Reqs, s \in ErrStatuses :
        /\ pc[r] = "done"
        /\ err[r] = Wrapped(HandlerError(s))
        /\ ret[r] = Wrapped(HandlerError(s))

\* the status that ServeHTTP passes to observeRequest
FinalStatus(r) ==
    IF err[r] = Nil THEN wrec[r].statusCode
    ELSE StatusOf(err[r])

\* C4: when the hook never fired, finalization sets the code label to the
\* sanitized status it was given, and the request duration is observed under
\* that label.
C4_FallbackSetsCode ==
    \A r \in Reqs :
        (/\ PastFinalize(r)
         /\ ~wrec[r].wroteHeader
         /\ (err[r] = Nil \/ HasStatus(err[r])))
            => /\ statusLabels[r].code = SanitizeCode(FinalStatus(r))
               /\ BagIn([labels |->
                             [statusLabels[r] EXCEPT
                                  !.code = SanitizeCode(FinalStatus(r))],
                         value |-> dur[r]], requestDuration)

\* C5: a request whose next handler returned an error carrying a status code
\* adds exactly one observation to each of request duration, request size and
\* response size, the three under the same label set of that request (its
\* host, its method, one status class); no other step of ServeHTTP after the
\* handler returned touches the three histograms.
C5_ErrorWithStatusObserved ==
    [][\A r \in Reqs :
           (pc[r] \in {"count", "finalize", "defer"} /\ HasStatus(err[r]))
               => IF pc[r] = "finalize" /\ pc'[r] = "defer"
                  THEN /\ OwnLabels(r, statusLabels'[r])
                       /\ AddsOne(requestDuration, requestDuration',
                                  statusLabels'[r])
                       /\ AddsOne(requestSize, requestSize',
                                  statusLabels'[r])
                       /\ AddsOne(responseSize, responseSize',
                                  statusLabels'[r])
                  ELSE UNCHANGED <<requestDuration, requestSize,
                                   responseSize>>]_vars

C5_Witness ==
    \E r \in Reqs :
        /\ pc[r] = "done"
        /\ HasStatus(err[r])
        /\ BagIn([labels |-> statusLabels[r], value |-> wrec[r].size],
                 responseSize)

\* C6: a request whose next handler returned an error carrying no status code
\* adds nothing to request duration, request size and response size, and
\* requests_total of its host still goes up by 1, at the increment after the
\* handler returned and at no other step.
C6_ErrorWithoutStatusSkipped ==
    [][\A r \in Reqs :
           (pc[r] \in {"count", "finalize", "defer"} /\ NoStatus(err[r]))
               => /\ UNCHANGED <<requestDuration, requestSize, responseSize>>
                  /\ requestCount' =
                         IF pc[r] = "count" /\ pc'[r] = "finalize"
                         THEN [requestCount EXCEPT ![req[r].Host] = @ + 1]
                         ELSE requestCount]_vars

C6_Witness ==
    \E r \in Reqs :
        /\ pc[r] = "done"
        /\ err[r] = PlainError
        /\ requestCount[req[r].Host] >= 1
        /\ requestDuration = EmptyBag

\* C7: request_errors_total of a host is the number of requests of that host
\* whose next handler returned a non-nil error, with or without a status
\* code; a nil return adds nothing.
C7_ErrorsCounted ==
    \A h \in ServedHosts :
        requestErrors[h] =
            Cardinality({r \in Reqs :
                PastFinalize(r) /\ err[r] # Nil /\ req[r].Host = h})

C7_Witness ==
    \E r \in Reqs :
        /\ pc[r] = "done"
        /\ HasStatus(err[r])
        /\ requestErrors[req[r].Host] = 1

\* C8: time-to-first-byte has one observation for each request whose handler
\* emitted a response head and none for the others; the value observed is
\* the one the hook computed, and it is at most the duration the same
\* request computes after the handler returned.
C8_TtfbOnceAndBounded ==
    /\ BagCardinality(responseDuration) =
           Cardinality({r \in Reqs : wrec[r].wroteHeader})
    /\ \A r \in Reqs :
           wrec[r].wroteHeader =>
               /\ BagIn([labels |-> statusLabels[r], value |-> ttfb[r]],
                        responseDuration)
               /\ PastCount(r) => ttfb[r] <= dur[r]

C8_Witness ==
    \E r \in Reqs :
        /\ pc[r] = "done"
        /\ wrec[r].wroteHeader
        /\ err[r] = Nil
        /\ ttfb[r] >= 1
        /\ ttfb[r] < dur[r]

\* C9: when the next handler returned nil, the three histograms hold the
\* request's observation, response size with the bytes written, under the
\* class of the recorder's final status; ServeHTTP returned nil, the request
\* is counted and the error counter of its host did not move.
C9_NilReturnFinalized ==
    \A r \in Reqs :
        (PastFinalize(r) /\ err[r] = Nil)
            => /\ statusLabels[r].code = SanitizeCode(wrec[r].statusCode)
               /\ BagIn([labels |-> statusLabels[r], value |-> dur[r]],
                        requestDuration)
               /\ BagIn([labels |-> statusLabels[r],
                         value |-> computeApproximateRequestSize(req[r])],
                        requestSize)
               /\ BagIn([labels |-> statusLabels[r], value |-> wrec[r].size],
                        responseSize)
               /\ requestCount[req[r].Host] >= 1
               /\ ret[r] = Nil

\* the size the specification gives for a request
SpecifiedSize(q) ==
    (IF q.URL = NoURL THEN 0 ELSE Len(URLString(q.URL)))
        + Len(q.Method) + Len(q.Proto)
        + HeaderLen(q.Header, DOMAIN q.Header)
        + Len(q.Host)
        + (IF q.ContentLength >= 0 THEN q.ContentLength ELSE 0)

\* C10: computeApproximateRequestSize returns the sum of the lengths of the
\* target, the method, the protocol, the header names and values and the
\* host, plus the content-length when that is non-negative.
C10_SizeIsSpecifiedSum ==
    sizeRet # NoResult => sizeRet[1] = SpecifiedSize(sizeArg)

\* C11: computeApproximateRequestSize returns a non-negative integer for
\* every request, whatever its content-length (any negative number too) and
\* with or without a URL, headers or a host.
C11_SizeNonNegative ==
    sizeRet # NoResult => sizeRet[1] >= 0

Range(s) == {s[i] : i \in DOMAIN s}

\* what holds of the registry under any count of instruments: the gauge and
\* the two counters are keyed by host, the histograms by host, code and
\* method, the duration histograms share one bucket set and the size
\* histograms have eight buckets from 256 up, each four times the one before
SchemasAsSpecified ==
    /\ {"requestInFlight", "requestCount", "requestErrors"}
           \subseteq DOMAIN registry
    /\ registry.requestInFlight.kind = "gauge"
    /\ registry.requestCount.kind = "counter"
    /\ registry.requestErrors.kind = "counter"
    /\ \A f \in {"requestInFlight", "requestCount", "requestErrors"} :
           Range(registry[f].labels) = {"host"}
    /\ \A f \in DOMAIN registry :
           registry[f].kind = "histogram" =>
               /\ Range(registry[f].labels) = {"host", "code", "method"}
               /\ Len(registry[f].labels) = 3
    /\ \A f \in {"requestSize", "responseSize"} :
           LET b == registry[f].buckets
           IN  /\ Len(b) = 8
               /\ b[1] = 256
               /\ \A i \in 2..8 : b[i] = 4 * b[i-1]
    /\ registry.requestDuration.buckets = registry.responseDuration.buckets

\* C13 as stated: in every state the registry holds exactly six instruments
\* with the schemas above.
C13_SixInstruments ==
    /\ Cardinality(DOMAIN registry) = 6
    /\ SchemasAsSpecified

\* C13 as amended: in every state, whatever requests were handled, the
\* registry holds exactly the seven instruments init registered, under the
\* prefix caddy_http_extend, with the schemas above: four histograms, not
\* three, are keyed by host, code and method.
C13_SevenInstrumentsFixed ==
    /\ Cardinality(DOMAIN registry) = 7
    /\ {registry[f].name : f \in DOMAIN registry} =
           {"caddy_http_extend_requests_in_flight",
            "caddy_http_extend_requests_total",
            "caddy_http_extend_request_errors_total",
            "caddy_http_extend_request_duration_seconds",
            "caddy_http_extend_request_size_bytes",
            "caddy_http_extend_response_size_bytes",
            "caddy_http_extend_response_duration_seconds"}
    /\ Cardinality({f \in DOMAIN registry :
                        registry[f].kind = "histogram"}) = 4
    /\ SchemasAsSpecified

C13_Witness ==
    \E r \in Reqs :
        /\ pc[r] = "done"
        /\ err[r] = Nil
        /\ requestDuration # EmptyBag
        /\ responseDuration # EmptyBag
        /\ Cardinality(DOMAIN registry) = 7

\* C14: within a request the gauge is incremented before the next handler
\* is called and decremented only by the step that leaves ServeHTTP, after
\* the handler returned or unwound; requests_total moves only at the step
\* right after the handler returned, the error counter and the three
\* finalization histograms only at the finalization step, both while the
\* gauge still holds the request.
C14_OrderWithinRequest ==
    [][/\ \A r \in Goroutines :
              Active(r) => requestInFlight[req[r].Host] >= 1
       /\ \A h \in ServedHosts :
              /\ requestInFlight'[h] > requestInFlight[h] =>
                     \E r \in Goroutines :
                         pc[r] = "idle" /\ pc'[r] = "next" /\ req'[r].Host = h
              /\ requestInFlight'[h] < requestInFlight[h] =>
                     \E r \in Goroutines :
                         pc[r] = "defer" /\ pc'[r] = "done" /\ req[r].Host = h
       /\ requestCount' # requestCount =>
              \E r \in Goroutines :
                  /\ pc[r] = "count" /\ pc'[r] = "finalize"
                  /\ requestInFlight'[req[r].Host] >= 1
       /\ (\/ requestErrors' # requestErrors
           \/ requestDuration' # requestDuration
           \/ requestSize' # requestSize
           \/ responseSize' # responseSize) =>
              \E r \in Goroutines :
                  /\ pc[r] = "finalize" /\ pc'[r] = "defer"
                  /\ requestInFlight'[req[r].Host] >= 1]_vars

C14_Witness ==
    \E r \in Reqs :
        /\ pc[r] = "defer"
        /\ HasStatus(err[r])
        /\ requestCount[req[r].Host] = 1
        /\ requestErrors[req[r].Host] = 1
        /\ requestDuration # EmptyBag
        /\ requestInFlight[req[r].Host] = 1

\* the step in which the response recorder calls the hook of request r
HookFires(r) == ~wrec[r].wroteHeader /\ wrec'[r].wroteHeader

\* C16: a call of the hook with a status writes the sanitized class of that
\* status into the code label and leaves host and method alone, adds one
\* time-to-first-byte observation under the updated label set, makes the
\* recorder stream (the hook returned false), and changes no other
\* instrument.
C16_HookEffect ==
    [][\A r \in Goroutines :
           HookFires(r) =>
               /\ statusLabels'[r] =
                      [statusLabels[r] EXCEPT
                           !.code = SanitizeCode(wrec'[r].statusCode)]
               /\ AddsOne(responseDuration, responseDuration',
                          statusLabels'[r])
               /\ wrec'[r].stream
               /\ UNCHANGED <<requestInFlight, requestCount, requestErrors,
                              requestDuration, requestSize,
                              responseSize>>]_vars

C16_Witness ==
    \E r \in Reqs :
        /\ pc[r] = "next"
        /\ wrec[r].wroteHeader
        /\ wrec[r].statusCode = 404
        /\ statusLabels[r].code = "404"
        /\ wrec[r].stream
        /\ BagCardinality(responseDuration) = 1

\* C17: the code label changes only when the hook fires or, at finalization,
\* when no head was sent; a finalization that follows the hook leaves the
\* label alone and makes its observations under the class of the status the
\* head was sent with, also when the handler then returned an error carrying
\* another status.
C17_HookClassKept ==
    [][\A r \in Goroutines :
           /\ (pc[r] # "idle" /\ statusLabels'[r].code # statusLabels[r].code)
                  => \/ HookFires(r)
                     \/ pc[r] = "finalize" /\ ~wrec[r].wroteHeader
           /\ (/\ pc[r] = "finalize" /\ pc'[r] = "defer"
               /\ wrec[r].wroteHeader
               /\ err[r] = Nil \/ HasStatus(err[r]))
                  => /\ statusLabels'[r].code =
                            SanitizeCode(wrec[r].statusCode)
                     /\ AddsOne(requestDuration, requestDuration',
                                statusLabels'[r])
                     /\ AddsOne(requestSize, requestSize', statusLabels'[r])
                     /\ AddsOne(responseSize, responseSize',
                                statusLabels'[r])]_vars

C17_Witness ==
    \E r \in Reqs :
        /\ pc[r] = "done"
        /\ wrec[r].statusCode = 404
        /\ HasStatus(err[r])
        /\ StatusOf(err[r]) = 500
        /\ statusLabels[r].code = "404"
        /\ BagIn([labels |-> statusLabels[r], value |-> dur[r]],
                 requestDuration)

\* C18: when the next handler panics ServeHTTP does not recover and returns
\* nothing: from the panic on the goroutine stays panicking, its only
\* further step is the deferred decrement of the gauge, and neither the panic
\* nor that step touches requests_total, the error counter or the three
\* finalization histograms.
C18_PanicPropagates ==
    [][\A r \in Goroutines :
           /\ panicking[r] => panicking'[r] /\ ret'[r] = NoReturn
           /\ (panicking'[r] /\ pc'[r] # pc[r]) =>
                  /\ UNCHANGED <<requestCount, requestErrors, requestDuration,
                                 requestSize, responseSize>>
                  /\ ret'[r] = NoReturn
                  /\ \/ /\ ~panicking[r]
                        /\ pc[r] = "next" /\ pc'[r] = "defer"
                        /\ UNCHANGED requestInFlight
                     \/ /\ panicking[r]
                        /\ pc[r] = "defer" /\ pc'[r] = "done"
                        /\ requestInFlight' =
                               [requestInFlight EXCEPT
                                    ![req[r].Host] = @ - 1]]_vars

C18_Witness ==
    \E r \in Reqs :
        /\ pc[r] = "done"
        /\ panicking[r]
        /\ wrec[r].wroteHeader
        /\ ret[r] = NoReturn
        /\ requestCount[req[r].Host] = 0
        /\ requestErrors[req[r].Host] = 0
        /\ requestDuration = EmptyBag
        /\ requestInFlight[req[r].Host] = 0

\* the label names a histogram was registered with
LabelNames(f) == Range(registry[f].labels)

\* C19: from the start of ServeHTTP on, the status label set of a request has
\* exactly the keys host, method and code, and every observation of the four
\* histograms was made under a label set with exactly these keys, the ones
\* the histogram was registered with.
C19_LabelKeysComplete ==
    /\ \A r \in Goroutines :
           pc[r] # "idle" =>
               DOMAIN statusLabels[r] = {"host", "method", "code"}
    /\ \A o \in BagToSet(requestDuration) :
           DOMAIN o.labels = LabelNames("requestDuration")
    /\ \A o \in BagToSet(requestSize) :
           DOMAIN o.labels = LabelNames("requestSize")
    /\ \A o \in BagToSet(responseSize) :
           DOMAIN o.labels = LabelNames("responseSize")
    /\ \A o \in BagToSet(responseDuration) :
           DOMAIN o.labels = LabelNames("responseDuration")

C19_Witness ==
    \E r \in Reqs :
        /\ pc[r] = "done"
        /\ ~wrec[r].wroteHeader
        /\ err[r] = Nil
        /\ BagIn([labels |-> [host |-> req[r].Host,
                              method |-> SanitizeMethod(req[r].Method),
                              code |-> "0"],
                  value |-> dur[r]], requestDuration)

\* the invocations of ServeHTTP for host h between increment and decrement
InFlightOf(h) == {r \in Goroutines : Active(r) /\ req[r].Host = h}

\* C15: under every interleaving the gauge of a host is the number of
\* invocations for that host that have incremented and not yet decremented;
\* it is never negative and it is 0 when no invocation is running.
C15_GaugeCountsInFlight ==
    \A h \in ServedHosts :
        /\ requestInFlight[h] = Cardinality(InFlightOf(h))
        /\ requestInFlight[h] >= 0
        /\ (\A r \in Goroutines : ~Active(r)) => requestInFlight[h] = 0

C15_Witness ==
    \E r1, r2 \in Goroutines :
        /\ r1 # r2
        /\ pc[r1] = "next"
        /\ pc[r2] = "defer"
        /\ req[r1].Host = req[r2].Host
        /\ requestInFlight[req[r1].Host] = 2

\* the status labels a request has by its own host, method and head
OwnStatusLabels(r) ==
    [host |-> req[r].Host,
     method |-> SanitizeMethod(req[r].Method),
     code |-> IF wrec[r].wroteHeader THEN SanitizeCode(wrec[r].statusCode)
              ELSE "0"]

\* the requests that made their finalization observations
Observed == {r \in Goroutines :
                 PastFinalize(r) /\ (err[r] = Nil \/ HasStatus(err[r]))}

\* the requests whose hook fired
HeadSent == {r \in Goroutines : wrec[r].wroteHeader}

\* the histogram holds one observation Obs(r) for each request of S, no more
HoldsExactly(hist, S, Obs(_)) ==
    \A o \in BagToSet(hist) \cup {Obs(r) : r \in S} :
        CopiesIn(o, hist) = Cardinality({r \in S : Obs(r) = o})

ObsDuration(r) == [labels |-> OwnStatusLabels(r), value |-> dur[r]]
ObsRequestSize(r) ==
    [labels |-> OwnStatusLabels(r),
     value |-> computeApproximateRequestSize(req[r])]
ObsResponseSize(r) == [labels |-> OwnStatusLabels(r), value |-> wrec[r].size]
ObsTtfb(r) == [labels |-> OwnStatusLabels(r), value |-> ttfb[r]]

\* C20: under every interleaving the labels of a request are those of its
\* own host, method and head, whatever the other requests do, and every
\* counter and histogram holds the sum of what each request adds on its own:
\* per host one count per returned request and one error per failed request,
\* per request one observation under its own labels.
C20_RequestsIsolated ==
    /\ \A r \in Goroutines :
           pc[r] # "idle" =>
               /\ labels[r] = [host |-> req[r].Host]
               /\ statusLabels[r] = OwnStatusLabels(r)
    /\ \A h \in ServedHosts :
           /\ requestCount[h] =
                  Cardinality({r \in Goroutines :
                                   PastCount(r) /\ req[r].Host = h})
           /\ requestErrors[h] =
                  Cardinality({r \in Goroutines :
                      PastFinalize(r) /\ err[r] # Nil /\ req[r].Host = h})
    /\ HoldsExactly(requestDuration, Observed, ObsDuration)
    /\ HoldsExactly(requestSize, Observed, ObsRequestSize)
    /\ HoldsExactly(responseSize, Observed, ObsResponseSize)
    /\ HoldsExactly(responseDuration, HeadSent, ObsTtfb)

C20_Witness ==
    \E r1, r2 \in Goroutines :
        /\ r1 # r2
        /\ pc[r1] = "done" /\ pc[r2] = "done"
        /\ req[r1].Host = req[r2].Host
        /\ err[r1] = Nil /\ wrec[r1].statusCode = 200
        /\ wrec[r1].size = MaxBody
        /\ HasStatus(err[r2]) /\ ~wrec[r2].wroteHeader
        /\ requestCount[req[r1].Host] = 2
        /\ requestErrors[req[r1].Host] = 1
        /\ BagCardinality(requestDuration) = 2

====
